---- MODULE Spec2Model ----
(***************************************************************************)
(* Model of the image-sharing handlers of share/images/views.py and the    *)
(* submission form of share/images/forms.py.                               *)
(*                                                                         *)
(* The relational store (Image rows, the users_like relation, Action rows, *)
(* Profile rows), the stored files and the redis store (one view counter   *)
(* per image and the sorted set image_ranking) are the state.  Each        *)
(* handler is one action, except image_detail, whose two redis calls are   *)
(* two steps of a request worker so that requests interleave and may fail  *)
(* between the calls.                                                      *)
(***************************************************************************)
EXTENDS Integers, Sequences, FiniteSets, TLC

(***************************************************************************)
(* Bounds of the model.                                                    *)
(***************************************************************************)
MaxImages == 2
MaxViews == 2
MaxActions == 2
MaxPages == 3
ExtraImages == 1
MaxRankOps == 4
MaxFetches == 2

(***************************************************************************)
(* Program constants.                                                      *)
(***************************************************************************)
\* views.py:106  r.zrange('image_ranking', 0, -1, desc=True)[:10]
TopN == 10
\* views.py:101 and views.py:145  Paginator(images, 1000)
PerPage == 1000

\* the registered users' ids, and the workers that serve image_detail requests
Users == {1, 2}
Workers == {1, 2}
Titles == {"Cat", "dog"}

Min(a, b) == IF a < b THEN a ELSE b

(***************************************************************************)
(* Strings the code inspects character by character (the source URL, the   *)
(* page parameter) are sequences of one-character strings.                 *)
(***************************************************************************)
\* str.lower(), on the letters the model's URLs use
LowerChar(c) ==
    CASE c = "J" -> "j"
      [] c = "P" -> "p"
      [] c = "E" -> "e"
      [] c = "G" -> "g"
      [] c = "N" -> "n"
      [] OTHER -> c

Lower(s) == [i \in 1..Len(s) |-> LowerChar(s[i])]

\* url.rsplit('.', 1): one piece when there is no '.', else the text before
\* the last '.' and the text after it
RSplitDot(s) ==
    LET dots == {i \in 1..Len(s) : s[i] = "."}
    IN  IF dots = {} THEN <<s>>
        ELSE LET k == CHOOSE i \in dots : \A j \in dots : j <= i
             IN  <<SubSeq(s, 1, k - 1), SubSeq(s, k + 1, Len(s))>>

\* forms.py:24
valid_extensions == {<<"j", "p", "g">>, <<"j", "p", "e", "g">>, <<"p", "n", "g">>}

\* The extension check without lowercasing (differs from ExtensionOf).
ExtensionOfCaseSensitive(url) == RSplitDot(url)[2]

\* forms.py:25  url.rsplit('.', 1)[1].lower(); only called when there is a '.'
ExtensionOf(url) == Lower(RSplitDot(url)[2])

\* forms.py:22-28  clean_url: "IndexError" when rsplit yields one piece,
\* "invalid" for a ValidationError, else "ok"
clean_url(url) ==
    IF Len(RSplitDot(url)) < 2 THEN "IndexError"
    ELSE IF ExtensionOf(url) \notin valid_extensions THEN "invalid"
    ELSE "ok"

\* The URLs submitted in the model: "x.c/a" followed by '.' and an extension,
\* "x.c/a" itself and the dot-free "l/a".
Base == <<"x", ".", "c", "/", "a">>
Exts ==
    { <<"j", "p", "g">>, <<"J", "P", "G">>, <<"J", "p", "e", "g">>,
      <<"P", "n", "G">>, <<"g", "i", "f">>, <<"j", "p", "g", "?">>, <<>> }
Urls == {Base \o <<".">> \o e : e \in Exts} \cup {Base, <<"l", "/", "a">>}
GoodUrl == Base \o <<".">> \o <<"j", "p", "g">>

\* forms.py:35  slugify(image.title), on the model's titles
slugify(t) == IF t = "Cat" THEN "cat" ELSE t
Slugs == {slugify(t) : t \in Titles}

\* forms.py:17  Meta.fields: the keys of form.cleaned_data
FormFields == {"title", "url", "url_user", "description"}

VARIABLES
    images,       \* Image rows: id -> [user, slug, private]
    nextId,       \* the next store-assigned image id
    users_like,   \* the users_like relation: id -> set of users
    actions,      \* Action rows, in insertion order: [user, verb, target]
    profiles,     \* the users whose Profile exists and is active
    files,        \* the number of files written to storage
    fetches,      \* the number of requests.get calls issued
    views,        \* redis 'image:<id>:views': id -> counter, for the keys set
    ranking,      \* redis sorted set 'image_ranking': member -> score
    pc,           \* per request worker: where its image_detail request is
    completed,    \* per image: image_detail requests that rendered
    failed,       \* per image: image_detail requests that died between the calls
    like_before,  \* users_like as it was before the 'like' just answered, or
                  \* before the 'like' that the unlike just answered followed
    rank_ops,     \* the number of operations taken so far (ranking study)
    resp          \* the request served by the latest step and its response

vars == <<images, nextId, users_like, actions, profiles, files, fetches,
          views, ranking, pc, completed, failed, like_before, rank_ops, resp>>

Idle == [at |-> "idle", id |-> 0, slug |-> "", total_views |-> 0]
NoResp == [op |-> "none"]

Init ==
    /\ images = <<>>
    /\ nextId = 1
    /\ users_like = <<>>
    /\ actions = <<>>
    /\ profiles = {}
    /\ files = 0
    /\ fetches = 0
    /\ views = <<>>
    /\ ranking = <<>>
    /\ pc = [w \in Workers |-> Idle]
    /\ completed = <<>>
    /\ failed = <<>>
    /\ like_before = <<>>
    /\ rank_ops = 0
    /\ resp = NoResp

\* A counter read: a missing redis key or set member, or an image never
\* counted, reads 0.
Get(f, k) == IF k \in DOMAIN f THEN f[k] ELSE 0
Put(f, k, v) == [x \in DOMAIN f \cup {k} |-> IF x = k THEN v ELSE f[x]]
Drop(f, k) == [x \in DOMAIN f \ {k} |-> f[x]]

(***************************************************************************)
(* Collaborators whose code is outside share/images.                       *)
(***************************************************************************)
\* actions.utils.create_action(user, verb, target): the activity log accepts
\* the (actor, verb, target) triple
create_action(log, user, verb, target) ==
    Append(log, [user |-> user, verb |-> verb, target |-> target])

\* Image.private of a new row (the form has no such field)
DefaultPrivate == FALSE

(***************************************************************************)
(* image_create (views.py:36-62) with ImageCreateForm (forms.py:9-45).     *)
(***************************************************************************)
\* forms.py:15-20  the bound form's cleaned_data has the Meta.fields keys only
cleaned_data(title, url) ==
    [k \in FormFields |-> IF k = "url" THEN url
                          ELSE IF k = "title" THEN <<title>> ELSE <<>>]

\* views.py:50-54  after new_image.save(): the lookup of 'is_private' in
\* cleaned_data, then the activity event and the redirect
AfterSave(cd) ==
    IF "is_private" \notin DOMAIN cd THEN "KeyError"
    ELSE IF cd["is_private"] = TRUE THEN "shared_redirect"
    ELSE "redirect"

CreateResp(u, method, url, is_private, status, id) ==
    [op |-> "image_create", user |-> u, method |-> method, url |-> url,
     is_private |-> is_private, status |-> status, image |-> id]

\* is_private is the submitted flag: "absent", "true" or "false";
\* fetch_ok tells whether requests.get returns
image_create(u, method, title, url, is_private, fetch_ok) ==
    LET keep_db == UNCHANGED <<images, nextId, users_like, actions, profiles>>
        rest == /\ UNCHANGED <<views, ranking, pc, completed, failed>>
                /\ like_before' = <<>>
        valid == clean_url(url)
        cd == cleaned_data(title, url)
    IN
    /\ rest
    /\ IF method = "GET"
       THEN \* views.py:55-62  the unvalidated form is rendered
            /\ keep_db
            /\ UNCHANGED <<files, fetches>>
            /\ resp' = CreateResp(u, method, url, is_private, "form", 0)
       ELSE IF valid = "IndexError"
       THEN \* forms.py:25  [1] of a one-piece split: the request dies
            /\ keep_db
            /\ UNCHANGED <<files, fetches>>
            /\ resp' = CreateResp(u, method, url, is_private, "error500", 0)
       ELSE IF valid = "invalid"
       THEN \* forms.py:27, views.py:59  the form is rendered with its errors
            /\ keep_db
            /\ UNCHANGED <<files, fetches>>
            /\ resp' = CreateResp(u, method, url, is_private, "invalid", 0)
       ELSE IF ~fetch_ok
       THEN \* forms.py:39  requests.get raises: the request dies
            /\ fetches < MaxFetches
            /\ keep_db
            /\ UNCHANGED files
            /\ fetches' = fetches + 1
            /\ resp' = CreateResp(u, method, url, is_private, "error500", 0)
       ELSE /\ nextId <= MaxImages
            /\ fetches' = fetches + 1
            \* forms.py:40-42  image.image.save(..., save=False) writes the file
            /\ files' = files + 1
            \* views.py:46-48
            /\ profiles' = profiles \cup {u}
            \* views.py:44, 49
            /\ images' = Put(images, nextId,
                             [user |-> u, slug |-> slugify(title),
                              private |-> DefaultPrivate])
            /\ users_like' = Put(users_like, nextId, {})
            /\ nextId' = nextId + 1
            /\ LET after == AfterSave(cd)
               IN  IF after = "KeyError"
                   THEN /\ UNCHANGED actions
                        /\ resp' = CreateResp(u, method, url, is_private,
                                              "error500", nextId)
                   ELSE IF after = "shared_redirect"
                   THEN /\ Len(actions) < MaxActions
                        /\ actions' = create_action(actions, u, "shared", nextId)
                        /\ resp' = CreateResp(u, method, url, is_private,
                                              "redirect", nextId)
                   ELSE /\ UNCHANGED actions
                        /\ resp' = CreateResp(u, method, url, is_private,
                                              "redirect", nextId)

(***************************************************************************)
(* image_detail (views.py:65-76).  A request is taken by a free worker:    *)
(* the lookup and r.incr are its first step, r.zincrby and the rendering   *)
(* its second; the request may die between the two redis calls.            *)
(***************************************************************************)
\* The lookup by id alone (differs from get_object_or_404).
get_by_id_only(id, slug) == id \in DOMAIN images

\* views.py:66  get_object_or_404(Image, id=id, slug=slug): whether a row matches
get_object_or_404(id, slug) ==
    id \in DOMAIN images /\ images[id].slug = slug

\* views.py:69  r.incr(key): atomic, a missing key counts from 0
incr(store, key) == Put(store, key, Get(store, key) + 1)

\* ZADD: the score is set, not added to (differs from zincrby).
zadd(zset, amount, member) == Put(zset, member, amount)

\* views.py:71  r.zincrby('image_ranking', amount, member): atomic
zincrby(zset, amount, member) == Put(zset, member, Get(zset, member) + amount)

DetailResp(id, slug, status, total) ==
    [op |-> "image_detail", id |-> id, slug |-> slug, status |-> status,
     total_views |-> total]

image_detail_begin(w, id, slug) ==
    /\ pc[w].at = "idle"
    /\ UNCHANGED <<images, nextId, users_like, actions, profiles, files,
                   fetches, ranking, completed, failed>>
    /\ like_before' = <<>>
    /\ IF ~get_object_or_404(id, slug)
       THEN \* Http404 before any redis call
            /\ UNCHANGED <<views, pc>>
            /\ resp' = DetailResp(id, slug, "404", 0)
       ELSE /\ Get(views, id) < MaxViews
            /\ views' = incr(views, id)
            /\ pc' = [pc EXCEPT ![w] = [at |-> "zincrby", id |-> id, slug |-> slug,
                                        total_views |-> views'[id]]]
            \* no answer yet: the request is between its two redis calls
            /\ resp' = DetailResp(id, slug, "counted", views'[id])

image_detail_finish(w) ==
    /\ pc[w].at = "zincrby"
    /\ UNCHANGED <<images, nextId, users_like, actions, profiles, files,
                   fetches, views, failed>>
    /\ like_before' = <<>>
    /\ ranking' = zincrby(ranking, 1, pc[w].id)
    /\ completed' = Put(completed, pc[w].id, Get(completed, pc[w].id) + 1)
    /\ pc' = [pc EXCEPT ![w] = Idle]
    /\ resp' = DetailResp(pc[w].id, pc[w].slug, "200", pc[w].total_views)

\* the connection to redis is lost after r.incr returned
image_detail_fail(w) ==
    /\ pc[w].at = "zincrby"
    /\ UNCHANGED <<images, nextId, users_like, actions, profiles, files,
                   fetches, views, ranking, completed>>
    /\ like_before' = <<>>
    /\ failed' = Put(failed, pc[w].id, Get(failed, pc[w].id) + 1)
    /\ pc' = [pc EXCEPT ![w] = Idle]
    /\ resp' = DetailResp(pc[w].id, pc[w].slug, "error500", 0)

(***************************************************************************)
(* image_like (views.py:79-95).  The id parameter is <<>> when missing and *)
(* <<n>> otherwise; the action parameter is "" when missing.               *)
(***************************************************************************)
\* Every action taken as a like (differs from is_like).
always_like(action) == TRUE

\* views.py:87  action == 'like'
is_like(action) == action = "like"

\* remove() that leaves the relation alone (differs from users_like_remove).
users_like_keep(likes, id, u) == likes

\* views.py:88  image.users_like.add(request.user)
users_like_add(likes, id, u) == [likes EXCEPT ![id] = @ \cup {u}]

\* views.py:91  image.users_like.remove(request.user)
users_like_remove(likes, id, u) == [likes EXCEPT ![id] = @ \ {u}]

\* after_like: the response before this one was the 'ok' of a 'like' request
\* of the same user on the same image
LikeResp(u, idp, action, status) ==
    [op |-> "image_like", user |-> u, idp |-> idp, action |-> action,
     status |-> status,
     after_like |-> /\ resp.op = "image_like"
                    /\ resp.status = "ok"
                    /\ resp.action = "like"
                    /\ resp.user = u
                    /\ resp.idp = idp]

image_like(u, idp, action) ==
    /\ UNCHANGED <<images, nextId, profiles, files, fetches, views, ranking,
                   pc, completed, failed>>
    /\ IF idp # <<>> /\ action # "" /\ idp[1] \in DOMAIN images
       THEN IF is_like(action)
            THEN /\ Len(actions) < MaxActions
                 /\ users_like' = users_like_add(users_like, idp[1], u)
                 /\ actions' = create_action(actions, u, "liked", idp[1])
                 /\ like_before' = users_like
                 /\ resp' = LikeResp(u, idp, action, "ok")
            ELSE /\ users_like' = users_like_remove(users_like, idp[1], u)
                 /\ UNCHANGED actions
                 /\ resp' = LikeResp(u, idp, action, "ok")
                 /\ like_before' = IF resp'.after_like THEN like_before ELSE <<>>
       ELSE \* missing parameter, or Image.DoesNotExist caught at views.py:93
            /\ UNCHANGED <<users_like, actions>>
            /\ like_before' = <<>>
            /\ resp' = LikeResp(u, idp, action, "error")

(***************************************************************************)
(* delete (views.py:169-187).  The statements inside transaction.atomic()  *)
(* work on the transaction's copy of the tables; fail_at names where an    *)
(* exception is raised: "none", "after_image" (the row is deleted, the     *)
(* Action rows not yet) or "after_actions" (both done, before commit).     *)
(***************************************************************************)
\* Leaving the block keeps the partial work (differs from atomic_exit).
exit_without_rollback(before, working, raised) == working

\* views.py:180  transaction.atomic(): an exception restores the tables
atomic_exit(before, working, raised) == IF raised THEN before ELSE working

\* views.py:183  Action.objects.filter(target_id=id_image).delete()
delete_actions(log, id) ==
    LET Keep(a) == a.target # id IN SelectSeq(log, Keep)

delete(id, fail_at) ==
    LET before == [images |-> images, users_like |-> users_like,
                   actions |-> actions]
        \* views.py:181  Image.objects.get raises Image.DoesNotExist
        found == id \in DOMAIN images
        \* views.py:182  image.delete(), with its users_like rows
        s1 == [before EXCEPT !.images = Drop(images, id),
                             !.users_like = Drop(users_like, id)]
        s2 == [s1 EXCEPT !.actions = delete_actions(actions, id)]
        raised == ~found \/ fail_at # "none"
        working == IF ~found THEN before
                   ELSE IF fail_at = "after_image" THEN s1 ELSE s2
        after == atomic_exit(before, working, raised)
    IN
    /\ images' = after.images
    /\ users_like' = after.users_like
    /\ actions' = after.actions
    /\ UNCHANGED <<nextId, profiles, files, fetches, views, ranking, pc,
                   completed, failed>>
    /\ like_before' = <<>>
    \* views.py:184-187  the error is logged, the page is always the same
    /\ resp' = [op |-> "delete", id |-> id, fail_at |-> fail_at,
                status |-> "delete_success", error_logged |-> raised]

(***************************************************************************)
(* The visibility change of an image (outside share/images/views.py).      *)
(***************************************************************************)
set_private(id, flag) ==
    /\ id \in DOMAIN images
    /\ images' = [images EXCEPT ![id].private = flag]
    /\ UNCHANGED <<nextId, users_like, actions, profiles, files, fetches,
                   views, ranking, pc, completed, failed>>
    /\ like_before' = <<>>
    /\ resp' = [op |-> "set_private", id |-> id, flag |-> flag]

(***************************************************************************)
(* The most-viewed list of image_list (views.py:105-110).                  *)
(***************************************************************************)
\* str(n): the decimal digits of a redis member
RECURSIVE DecStr(_)
DecStr(n) == IF n < 10 THEN <<n>> ELSE Append(DecStr(n \div 10), n % 10)

\* byte-wise order of two members
LexLess(a, b) ==
    \E k \in 1..(Min(Len(a), Len(b)) + 1) :
        /\ \A j \in 1..(k - 1) : a[j] = b[j]
        /\ IF k > Len(a) THEN k <= Len(b)
           ELSE k <= Len(b) /\ a[k] < b[k]

\* redis order of a sorted set read with desc=True: higher scores first,
\* members of equal score in descending byte order
ZBefore(zset, a, b) ==
    \/ zset[a] > zset[b]
    \/ zset[a] = zset[b] /\ LexLess(DecStr(b), DecStr(a))

\* views.py:106  r.zrange('image_ranking', 0, -1, desc=True)
zrange_desc(zset) ==
    [p \in 1..Cardinality(DOMAIN zset) |->
        CHOOSE m \in DOMAIN zset :
            Cardinality({x \in DOMAIN zset : ZBefore(zset, x, m)}) = p - 1]

\* views.py:106  [:10]
first_n(seq, n) == SubSeq(seq, 1, Min(n, Len(seq)))

Range(seq) == {seq[i] : i \in 1..Len(seq)}

\* list.index(x): the first position of x
index(seq, x) == CHOOSE i \in 1..Len(seq) : seq[i] = x /\ \A j \in 1..(i - 1) : seq[j] # x

\* The rows of the ids, private ones included (differs from filter_public).
filter_any(rows, ids) == {i \in DOMAIN rows : i \in Range(ids)}

\* views.py:109  Image.objects.filter(id__in=image_ranking_ids, private=False)
filter_public(rows, ids) ==
    {i \in DOMAIN rows : i \in Range(ids) /\ rows[i].private = FALSE}

\* views.py:110  most_viewed.sort(key=lambda x: image_ranking_ids.index(x.id))
sort_by_index(S, ids) ==
    [p \in 1..Cardinality(S) |->
        CHOOSE m \in S :
            Cardinality({x \in S : index(ids, x) < index(ids, m)}) = p - 1]

\* views.py:106-110
most_viewed ==
    LET image_ranking_ids == first_n(zrange_desc(ranking), TopN)
    IN  sort_by_index(filter_public(images, image_ranking_ids), image_ranking_ids)

(***************************************************************************)
(* Pagination (views.py:101-123 and 145-155).  The page parameter is the   *)
(* query string's text, <<>> when absent; images_only is "" when absent.   *)
(***************************************************************************)
DigitVal(c) ==
    CASE c = "0" -> 0 [] c = "1" -> 1 [] c = "2" -> 2 [] c = "3" -> 3
      [] c = "4" -> 4 [] c = "5" -> 5 [] c = "6" -> 6 [] c = "7" -> 7
      [] c = "8" -> 8 [] c = "9" -> 9 [] OTHER -> -1

AllDigits(s) == Len(s) > 0 /\ \A i \in 1..Len(s) : DigitVal(s[i]) >= 0

RECURSIVE DigitsValue(_)
DigitsValue(s) ==
    IF s = <<>> THEN 0
    ELSE 10 * DigitsValue(SubSeq(s, 1, Len(s) - 1)) + DigitVal(s[Len(s)])

\* int(page) inside Paginator.validate_number: digits with an optional sign,
\* anything else (None included) is a TypeError or ValueError
py_int(s) ==
    IF AllDigits(s) THEN [ok |-> TRUE, value |-> DigitsValue(s)]
    ELSE IF Len(s) > 1 /\ s[1] = "+" /\ AllDigits(Tail(s))
    THEN [ok |-> TRUE, value |-> DigitsValue(Tail(s))]
    ELSE IF Len(s) > 1 /\ s[1] = "-" /\ AllDigits(Tail(s))
    THEN [ok |-> TRUE, value |-> 0 - DigitsValue(Tail(s))]
    ELSE [ok |-> FALSE, value |-> 0]

\* Paginator.num_pages with per_page = PerPage: an empty list has one page
num_pages(count) ==
    IF count = 0 THEN 1 ELSE (count + PerPage - 1) \div PerPage

\* Paginator.validate_number
validate_number(page, np) ==
    LET n == py_int(page)
    IN  IF ~n.ok THEN [exc |-> "PageNotAnInteger", number |-> 0]
        ELSE IF n.value < 1 THEN [exc |-> "EmptyPage", number |-> 0]
        ELSE IF n.value > np THEN [exc |-> "EmptyPage", number |-> 0]
        ELSE [exc |-> "", number |-> n.value]

\* The first page whatever the mode (differs from on_empty_page).
first_page_on_empty(images_only, np) == [status |-> "page", number |-> 1]

\* views.py:117-123 and 152-155  except EmptyPage
on_empty_page(images_only, np) ==
    IF images_only # "" THEN [status |-> "empty", number |-> 0]
    ELSE [status |-> "page", number |-> np]

\* views.py:112-123 and 148-155
paginate(count, page, images_only) ==
    LET np == num_pages(count)
        v == validate_number(page, np)
    IN  IF v.exc = "PageNotAnInteger" THEN [status |-> "page", number |-> 1]
        ELSE IF v.exc = "EmptyPage" THEN on_empty_page(images_only, np)
        ELSE [status |-> "page", number |-> v.number]

ListResp(op, r, user_id, page, images_only, status, number, count, qs, mv) ==
    [op |-> op, user |-> r, user_id |-> user_id, page |-> page,
     images_only |-> images_only, status |-> status, number |-> number,
     \* Page.object_list is rows first..last of the ordered queryset
     first |-> IF number = 0 THEN 0 ELSE (number - 1) * PerPage + 1,
     last |-> IF number = 0 THEN 0 ELSE Min(number * PerPage, count),
     \* the rows the paginator was built over
     queryset |-> qs, most_viewed |-> mv]

\* views.py:98-136
image_list(r, page, images_only) ==
    LET count == Cardinality(DOMAIN images)
        mv == most_viewed
        p == paginate(count, page, images_only)
    IN
    /\ UNCHANGED <<images, nextId, users_like, actions, profiles, files,
                   fetches, views, ranking, pc, completed, failed>>
    /\ like_before' = <<>>
    /\ resp' = IF p.status = "empty"
               THEN ListResp("image_list", r, 0, page, images_only, "empty",
                             0, count, {}, <<>>)
               ELSE ListResp("image_list", r, 0, page, images_only, "page",
                             p.number, count, DOMAIN images, mv)

\* views.py:144  Image.objects.filter(user=user)
filter_user(rows, u) == {i \in DOMAIN rows : rows[i].user = u}

\* views.py:139-166
user_images_list(r, user_id, page, images_only) ==
    /\ UNCHANGED <<images, nextId, users_like, actions, profiles, files,
                   fetches, views, ranking, pc, completed, failed>>
    /\ like_before' = <<>>
    /\ IF user_id \notin Users
       THEN \* views.py:141  User.objects.get raises User.DoesNotExist
            resp' = ListResp("user_images_list", r, user_id, page, images_only,
                             "error500", 0, 0, {}, <<>>)
       ELSE IF user_id = r
       THEN LET qs == filter_user(images, user_id)
                count == Cardinality(qs)
                p == paginate(count, page, images_only)
            IN  resp' = IF p.status = "empty"
                        THEN ListResp("user_images_list", r, user_id, page,
                                      images_only, "empty", 0, count, {}, <<>>)
                        ELSE ListResp("user_images_list", r, user_id, page,
                                      images_only, "page", p.number, count,
                                      qs, <<>>)
       ELSE \* views.py:165-166
            resp' = ListResp("user_images_list", r, user_id, page, images_only,
                             "notfound", 0, 0, {}, <<>>)

(***************************************************************************)
(* Inputs.                                                                 *)
(***************************************************************************)
PrivateFlags == {"absent", "true", "false"}
\* ids a request may name: the images' and one that is never assigned
RequestIds == 1..(MaxImages + 1)
\* user ids a request may name: the users' and one that no user has
RequestUserIds == Users \cup {Cardinality(Users) + 1}
IdParams == {<<>>} \cup {<<i>> : i \in RequestIds}
ActionParams == {"", "like", "unlike"}
FailPoints == {"none", "after_image", "after_actions"}
Digit(n) == CASE n = 0 -> "0" [] n = 1 -> "1" [] n = 2 -> "2" [] n = 3 -> "3"
              [] n = 4 -> "4" [] n = 5 -> "5" [] n = 6 -> "6" [] n = 7 -> "7"
              [] n = 8 -> "8" [] OTHER -> "9"
PageParams ==
    {<<Digit(n)>> : n \in 0..(MaxPages + 1)}
      \cup { <<>>, <<"a", "b", "c">>, <<"9", "9", "9", "9">>, <<"-", "1">>,
             <<"+", "2">>, <<"1", ".", "5">> }
OnlyParams == {"", "1"}
\* what a POST submits: every URL, and for the valid URL every visibility
\* flag and both outcomes of the fetch
Submissions ==
    {[url |-> u, flag |-> "absent", ok |-> TRUE] : u \in Urls}
      \cup {[url |-> GoodUrl, flag |-> f, ok |-> o] :
                f \in PrivateFlags, o \in BOOLEAN}

(***************************************************************************)
(* The whole system.                                                       *)
(***************************************************************************)
Next ==
    /\ UNCHANGED rank_ops
    /\ \/ \E u \in Users, t \in Titles, sub \in Submissions :
              image_create(u, "POST", t, sub.url, sub.flag, sub.ok)
       \/ \E u \in Users : image_create(u, "GET", "Cat", GoodUrl, "absent", TRUE)
       \/ \E w \in Workers, id \in RequestIds, sl \in Slugs :
              image_detail_begin(w, id, sl)
       \/ \E w \in Workers : image_detail_finish(w)
       \/ \E w \in Workers : image_detail_fail(w)
       \/ \E u \in Users, idp \in IdParams, a \in ActionParams :
              image_like(u, idp, a)
       \/ \E u \in Users, pg \in PageParams, only \in OnlyParams :
              image_list(u, pg, only)
       \/ \E u \in Users, uid \in RequestUserIds, pg \in PageParams,
            only \in OnlyParams : user_images_list(u, uid, pg, only)
       \/ \E id \in RequestIds, fp \in FailPoints : delete(id, fp)
       \/ \E id \in RequestIds, flag \in BOOLEAN : set_private(id, flag)

Spec == Init /\ [][Next]_vars

(***************************************************************************)
(* Submission: the form's validation, the fetch and what a submission      *)
(* leaves behind.                                                          *)
(***************************************************************************)
NextCreate ==
    /\ UNCHANGED rank_ops
    /\ \/ \E u \in Users, sub \in Submissions :
              image_create(u, "POST", "Cat", sub.url, sub.flag, sub.ok)
       \/ \E u \in Users : image_create(u, "GET", "Cat", GoodUrl, "absent", TRUE)

SpecCreate == Init /\ [][NextCreate]_vars

(***************************************************************************)
(* Views: interleaved image_detail requests on images that are created     *)
(* meanwhile, the first of which may be deleted at any time.               *)
(***************************************************************************)
NextViews ==
    /\ UNCHANGED rank_ops
    /\ \/ image_create(1, "POST", "Cat", GoodUrl, "absent", TRUE)
       \/ \E w \in Workers, id \in RequestIds, sl \in Slugs :
              image_detail_begin(w, id, sl)
       \/ \E w \in Workers : image_detail_finish(w)
       \/ \E w \in Workers : image_detail_fail(w)
       \/ delete(1, "none")

SpecViews == Init /\ [][NextViews]_vars

(***************************************************************************)
(* Likes and deletion: the users_like relation and the activity log.       *)
(***************************************************************************)
NextSocial ==
    /\ UNCHANGED rank_ops
    /\ \/ image_create(1, "POST", "Cat", GoodUrl, "absent", TRUE)
       \/ \E u \in Users, idp \in IdParams, a \in ActionParams :
              image_like(u, idp, a)
       \/ \E id \in RequestIds, fp \in FailPoints : delete(id, fp)

SpecSocial == Init /\ [][NextSocial]_vars

(***************************************************************************)
(* Ranking: TopN + ExtraImages public images, each viewed once, then up to *)
(* MaxRankOps further steps of viewing, hiding, showing, deleting and      *)
(* listing.                                                                *)
(***************************************************************************)
RankImages == TopN + ExtraImages
\* the images the requests name: the two lowest ids and the highest
RankTargets == {1, 2, RankImages}

InitRank ==
    /\ images = [i \in 1..RankImages |->
                    [user |-> 1, slug |-> "cat", private |-> DefaultPrivate]]
    /\ nextId = RankImages + 1
    /\ users_like = [i \in 1..RankImages |-> {}]
    /\ actions = <<>>
    /\ profiles = {1}
    /\ files = RankImages
    /\ fetches = RankImages
    /\ views = [i \in 1..RankImages |-> 1]
    /\ ranking = [i \in 1..RankImages |-> 1]
    /\ pc = [w \in Workers |-> Idle]
    /\ completed = [i \in 1..RankImages |-> 1]
    /\ failed = <<>>
    /\ like_before = <<>>
    /\ rank_ops = 0
    /\ resp = NoResp

NextRank ==
    /\ rank_ops < MaxRankOps
    /\ rank_ops' = rank_ops + 1
    /\ \/ \E id \in RankTargets : image_detail_begin(1, id, "cat")
       \/ image_detail_finish(1)
       \/ image_detail_fail(1)
       \/ \E id \in RankTargets, flag \in BOOLEAN : set_private(id, flag)
       \/ \E id \in RankTargets : delete(id, "none")
       \/ image_list(1, <<>>, "")

SpecRank == InitRank /\ [][NextRank]_vars

(***************************************************************************)
(* Pagination: tables of up to MaxPages pages, all rows of user 1, and the *)
(* two listing handlers.                                                   *)
(***************************************************************************)
RowCounts == {0, 1, PerPage, PerPage + 1, (MaxPages - 1) * PerPage + 1}

InitPage ==
    \E n \in RowCounts :
        /\ images = [i \in 1..n |->
                        [user |-> 1, slug |-> "cat", private |-> DefaultPrivate]]
        /\ nextId = n + 1
        /\ users_like = [i \in 1..n |-> {}]
        /\ actions = <<>>
        /\ profiles = IF n = 0 THEN {} ELSE {1}
        /\ files = n
        /\ fetches = n
        /\ views = <<>>
        /\ ranking = <<>>
        /\ pc = [w \in Workers |-> Idle]
        /\ completed = <<>>
        /\ failed = <<>>
        /\ like_before = <<>>
        /\ rank_ops = 0
        /\ resp = NoResp

NextPage ==
    /\ UNCHANGED rank_ops
    /\ \/ \E pg \in PageParams, only \in OnlyParams : image_list(1, pg, only)
       \/ \E u \in Users, pg \in PageParams, only \in OnlyParams :
              user_images_list(u, u, pg, only)
       \/ \E u \in Users : \E uid \in RequestUserIds \ {u}, only \in OnlyParams :
              user_images_list(u, uid, <<>>, only)

SpecPage == InitPage /\ [][NextPage]_vars

(***************************************************************************)
(* Properties of the view counters (SpecViews).                            *)
(***************************************************************************)
\* image_detail requests on x that did r.incr and not (yet) r.zincrby
InFlight(x) == Cardinality({w \in Workers : pc[w].at = "zincrby" /\ pc[w].id = x})

\* C1: for every image, once N detail requests for it have completed and
\* none is in flight or has failed, its view counter is exactly N and its
\* ranking score is exactly N, whatever happened to the other images.
C1_ExactlyNViews ==
    \A x \in RequestIds :
        (InFlight(x) = 0 /\ Get(failed, x) = 0) =>
            /\ Get(views, x) = Get(completed, x)
            /\ Get(ranking, x) = Get(completed, x)

\* Two images were viewed, one of them twice, by requests that all completed.
C1_Witness ==
    \E x, y \in RequestIds :
        /\ x # y
        /\ Get(completed, x) >= 2 /\ Get(completed, y) >= 1
        /\ InFlight(x) = 0 /\ Get(failed, x) = 0
        /\ InFlight(y) = 0 /\ Get(failed, y) = 0

C10_State ==
    \A x \in RequestIds :
        /\ Get(views, x) >= Get(ranking, x)
        /\ Get(views, x) - Get(ranking, x) = InFlight(x) + Get(failed, x)

C10_Step ==
    \* neither counter ever decreases
    /\ \A x \in RequestIds :
          /\ Get(views', x) >= Get(views, x)
          /\ Get(ranking', x) >= Get(ranking, x)
    \* a request answered 404 changed neither
    /\ (resp'.op = "image_detail" /\ resp'.status = "404") =>
          (views' = views /\ ranking' = ranking)
    \* a request that reaches the counters named an existing row by id and slug
    /\ \A w \in Workers :
          (pc[w].at = "idle" /\ pc'[w].at = "zincrby") =>
              /\ pc'[w].id \in DOMAIN images
              /\ images[pc'[w].id].slug = pc'[w].slug
    \* and a request for an id and slug that no row has is answered 404
    /\ (resp'.op = "image_detail" /\ resp'.status = "counted") =>
          /\ resp'.id \in DOMAIN images
          /\ images[resp'.id].slug = resp'.slug

\* C10: in every state each image's view counter is at least its ranking
\* score and exceeds it by exactly the number of detail requests for it that
\* incremented the counter and not (yet) the score; neither ever decreases;
\* a detail request for an unknown id or a mismatched slug changes neither.
C10_CounterAtLeastScore == []C10_State /\ [][C10_Step]_vars

\* A request failed between the two calls, another is between them, and a
\* request for a mismatched slug was just answered 404.
C10_Witness ==
    /\ \E x \in RequestIds : Get(failed, x) >= 1 /\ InFlight(x) >= 1
    /\ resp.op = "image_detail" /\ resp.status = "404"
    /\ resp.id \in DOMAIN images

(***************************************************************************)
(* Properties of the most-viewed list (SpecRank).                          *)
(***************************************************************************)
\* C2: in every state the most-viewed list has at most 10 entries, each an
\* existing public row, none twice, in descending order of ranking score.
C2_MostViewed ==
    LET mv == most_viewed
    IN  /\ Len(mv) <= TopN
        /\ \A k \in 1..Len(mv) :
              /\ mv[k] \in DOMAIN images
              /\ images[mv[k]].private = FALSE
              /\ mv[k] \in DOMAIN ranking
        /\ \A j, k \in 1..Len(mv) : j < k =>
              /\ mv[j] # mv[k]
              /\ ranking[mv[j]] >= ranking[mv[k]]

\* More than 10 images are ranked, one of the ten best ranked is private,
\* and the list holds entries of different scores.
C2_Witness ==
    LET mv == most_viewed
        top == first_n(zrange_desc(ranking), TopN)
    IN  /\ Cardinality(DOMAIN ranking) > TopN
        /\ \E k \in 1..Len(top) :
              top[k] \in DOMAIN images /\ images[top[k]].private
        /\ Len(mv) >= 2
        /\ ranking[mv[1]] > ranking[mv[Len(mv)]]

(***************************************************************************)
(* Properties of delete and image_like (SpecSocial).                       *)
(***************************************************************************)
TargetsOf(log) == {log[k].target : k \in 1..Len(log)}

\* C3: a delete(X) that meets no failure leaves neither row X nor a log
\* entry whose target is X; a delete(X) that fails at any point, or whose X
\* does not exist, leaves the rows and the log entries as they were.
C3_DeleteAllOrNothing ==
    [][ resp'.op = "delete" =>
          IF resp'.fail_at = "none" /\ resp'.id \in DOMAIN images
          THEN /\ resp'.id \notin DOMAIN images'
               /\ resp'.id \notin TargetsOf(actions')
          ELSE /\ images' = images
               /\ actions' = actions ]_vars

\* A delete failed after the row was deleted, on an image that exists and
\* has log entries.
C3_Witness ==
    /\ resp.op = "delete"
    /\ resp.fail_at = "after_image"
    /\ resp.id \in DOMAIN images
    /\ resp.id \in TargetsOf(actions)

UnlikeAfterLike ==
    /\ resp.op = "image_like"
    /\ resp.status = "ok"
    /\ resp.action # "like"
    /\ resp.after_like

\* C5 as stated: a like by U followed by an unlike by U leaves every
\* liked-by set as it was before the like.
C5_Original == UnlikeAfterLike => users_like = like_before

\* C5 as amended: a like by U followed by an unlike by U leaves X's liked-by
\* set equal to S without U (which is S when U had not liked X before), and
\* every other liked-by set as it was.
C5_LikeThenUnlike ==
    UnlikeAfterLike =>
        users_like = [like_before EXCEPT ![resp.idp[1]] = @ \ {resp.user}]

\* The pair ran on an image that another user had liked already.
C5_Witness ==
    /\ UnlikeAfterLike
    /\ like_before[resp.idp[1]] # {}
    /\ resp.user \notin like_before[resp.idp[1]]

\* C6: an image_like request on an existing image appends exactly one log
\* entry (the requester, that image) when its action is 'like' and none
\* otherwise; a request without id or action, or for an unknown image, is
\* answered 'error' and changes neither a liked-by set nor the log.
C6_LikeLogsOnce ==
    [][ resp'.op = "image_like" =>
          IF resp'.idp # <<>> /\ resp'.action # "" /\ resp'.idp[1] \in DOMAIN images
          THEN /\ resp'.status = "ok"
               /\ IF resp'.action = "like"
                  THEN /\ Len(actions') = Len(actions) + 1
                       /\ SubSeq(actions', 1, Len(actions)) = actions
                       /\ actions'[Len(actions')].user = resp'.user
                       /\ actions'[Len(actions')].target = resp'.idp[1]
                  ELSE actions' = actions
          ELSE /\ resp'.status = "error"
               /\ users_like' = users_like
               /\ actions' = actions ]_vars

\* A second like was logged, and an unlike was answered after it.
C6_Witness ==
    /\ resp.op = "image_like"
    /\ resp.status = "ok"
    /\ resp.action = "unlike"
    /\ Len(actions) >= 2

(***************************************************************************)
(* Properties of the listings (SpecPage).                                  *)
(***************************************************************************)
Max(a, b) == IF a > b THEN a ELSE b

\* the text of an integer: digits, with an optional sign
IsIntegerText(s) ==
    \/ AllDigits(s)
    \/ Len(s) > 1 /\ s[1] \in {"+", "-"} /\ AllDigits(Tail(s))

\* the rows a listing request ranges over
ResultSet(r) ==
    IF r.op = "image_list" THEN DOMAIN images
    ELSE {i \in DOMAIN images : images[i].user = r.user_id}

\* the number of pages of n rows: the p with (p-1) * PerPage < n <= p * PerPage,
\* and 1 for no rows
PagesOf(n) ==
    CHOOSE p \in 1..(n + 1) :
        (p - 1) * PerPage < Max(n, 1) /\ Max(n, 1) <= p * PerPage

ListingAnswered ==
    \/ resp.op = "image_list"
    \/ resp.op = "user_images_list" /\ resp.user_id = resp.user

\* C4: over a result set of P pages, a listing request with a non-numeric
\* page gets page 1 in both modes; with a numeric page outside 1..P it gets
\* page P in full mode and the empty response in fragment mode; with a
\* numeric page within 1..P it gets that page.
C4_Pagination ==
    ListingAnswered =>
        LET P == PagesOf(Cardinality(ResultSet(resp)))
        IN  IF ~IsIntegerText(resp.page)
            THEN resp.status = "page" /\ resp.number = 1
            ELSE IF py_int(resp.page).value \in 1..P
            THEN resp.status = "page" /\ resp.number = py_int(resp.page).value
            ELSE IF resp.images_only = ""
            THEN resp.status = "page" /\ resp.number = P
            ELSE resp.status = "empty"

\* Page 9999 of a three-page list was asked for in full mode and page 3 given.
C4_Witness ==
    /\ resp.op = "image_list"
    /\ resp.page = <<"9", "9", "9", "9">>
    /\ resp.images_only = ""
    /\ PagesOf(Cardinality(DOMAIN images)) = 3
    /\ resp.number = 3

\* C7 as stated: user_images_list gives listing data only when user_id is
\* the requester's id, and then only rows the requester owns; for every
\* other user_id the answer is the not-found page, without rows.
C7_OwnListingOnly ==
    resp.op = "user_images_list" =>
        /\ resp.status = "page" =>
              /\ resp.user_id = resp.user
              /\ \A i \in resp.queryset : images[i].user = resp.user
        /\ resp.user_id # resp.user =>
              /\ resp.status = "notfound"
              /\ resp.queryset = {}

(***************************************************************************)
(* Properties of the submission (SpecCreate).                              *)
(***************************************************************************)
HasDot(url) == \E k \in 1..Len(url) : url[k] = "."

\* url ends in '.' followed by e, in any letter case
EndsWithExtension(url, e) ==
    /\ Len(url) > Len(e)
    /\ url[Len(url) - Len(e)] = "."
    /\ \A i \in 1..Len(e) : LowerChar(url[Len(url) - Len(e) + i]) = e[i]

HasValidExtension(url) == \E e \in valid_extensions : EndsWithExtension(url, e)

C9_SubmissionCompletes ==
    (resp.op = "image_create" /\ resp.image # 0) =>
        /\ resp.image \in DOMAIN images
        /\ images[resp.image].user = resp.user
        /\ resp.status = "redirect"
        /\ ([user |-> resp.user, verb |-> "shared", target |-> resp.image]
               \in Range(actions)) <=> (resp.is_private = "false")

====
